---- MODULE Spec2Model ----
(***************************************************************************)
(* A model of singleplayer.py: a single-player Blackjack session           *)
(* (Card, Shoe, Hand, Player, Dealer, Table).                              *)
(*                                                                         *)
(* Text is modelled as a sequence of one-character strings, so that        *)
(* int(...) and str.lower() are computed character by character.           *)
(* random.shuffle is modelled as a permutation chosen by a "seed" drawn    *)
(* from a bounded family of permutations (Seeds).                          *)
(***************************************************************************)
EXTENDS Integers, Sequences, FiniteSets, TLC

VARIABLES
    shoe,         \* Shoe.shoe: the class-level list of cards (top = last element)
    deck_count,   \* Shoe.deck_count of the session's shoe
    balance,      \* Player.balance
    player_hand,  \* Player.hand.cards
    dealer_hand,  \* Dealer.hand.cards
    bet,          \* play_round's local bet (0 while no bet is placed)
    result,       \* play_round's local result ("" while determine_winner has not run)
    pc,           \* where the control thread is (see PCs)
    inp,          \* the last line read by input()
    balance0,     \* history: the balance when the current round's bet prompt started
    rounds,       \* history: the number of rounds started
    deals,        \* history: the number of deal_card calls made
    instances     \* SpecShoes: the attributes (__dict__) of each Shoe object built

vars == <<shoe, deck_count, balance, player_hand, dealer_hand, bet, result, pc,
          inp, balance0, rounds, deals, instances>>

(***************************************************************************)
(* Bounds of the model.                                                    *)
(***************************************************************************)
MaxRounds == 2        \* rounds per session
MaxOffset == 12       \* shuffle seeds: offsets 0..MaxOffset for each stride
MaxHandLen == 3       \* SpecValue: arbitrary hands up to this many cards
MaxPlayLen == 5       \* SpecValue: hands that never held a bust before the last card
MaxDecks == 2         \* SpecShoe: deck counts 1..MaxDecks
MaxExtraDeals == 2    \* SpecShoe: deals made after the first depletion reshuffle
MaxLongOffset == 1    \* SpecLong: shuffle seeds with offsets 0..MaxLongOffset
LateCards == 6        \* SpecLong: cards left in the first shoe when free play starts
MaxLateDeals == 2     \* SpecLong: rounds start until this many deals into the second shoe
MaxLeft == 1          \* SpecDealer: cards left in the shoe when play_turn is called
MaxShoes == 2         \* SpecShoes: Shoe objects constructed
MaxSharedDeals == 4   \* SpecShoes: deal_card calls made

(***************************************************************************)
(* Program constants.                                                      *)
(***************************************************************************)
DefaultDeckCount == 6     \* Shoe.__init__(deck_count=6)
StartBalance == 100       \* Player.__init__(balance=100)
BustLimit == 21           \* "value > 21"
DealerStand == 17         \* "calculate_value() < 17"

ranks == <<"2", "3", "4", "5", "6", "7", "8", "9", "10", "J", "Q", "K", "A">>
\* The source's suit symbols are written out by name.
suits == <<"spade", "club", "heart", "diamond">>

Card(rank, suit) == [rank |-> rank, suit |-> suit]

Cards == {Card(ranks[i], suits[j]) : i \in 1..Len(ranks), j \in 1..Len(suits)}

(***************************************************************************)
(* Text: str.lower(), int(str).                                            *)
(***************************************************************************)
UpperLetters == <<"A", "B", "C", "D", "E", "F", "G", "H", "I", "J", "K", "L", "M",
                  "N", "O", "P", "Q", "R", "S", "T", "U", "V", "W", "X", "Y", "Z">>
LowerLetters == <<"a", "b", "c", "d", "e", "f", "g", "h", "i", "j", "k", "l", "m",
                  "n", "o", "p", "q", "r", "s", "t", "u", "v", "w", "x", "y", "z">>

LowerChar(c) ==
    IF \E i \in 1..Len(UpperLetters) : UpperLetters[i] = c
    THEN LowerLetters[CHOOSE i \in 1..Len(UpperLetters) : UpperLetters[i] = c]
    ELSE c

\* str.lower()
lower(s) == [i \in 1..Len(s) |-> LowerChar(s[i])]

DigitChars == <<"0", "1", "2", "3", "4", "5", "6", "7", "8", "9">>

IsDigit(c) == \E d \in 1..Len(DigitChars) : DigitChars[d] = c

DigitVal(c) == (CHOOSE d \in 1..Len(DigitChars) : DigitChars[d] = c) - 1

IsSpace(c) == c = " "

RECURSIVE StripLeft(_)
StripLeft(s) ==
    IF s # <<>> /\ IsSpace(s[1]) THEN StripLeft(Tail(s)) ELSE s

RECURSIVE StripRight(_)
StripRight(s) ==
    IF s # <<>> /\ IsSpace(s[Len(s)])
    THEN StripRight(SubSeq(s, 1, Len(s) - 1)) ELSE s

Strip(s) == StripRight(StripLeft(s))

\* The digits of an integer literal: digits, with single underscores between digits.
DigitsWellFormed(d) ==
    /\ d # <<>>
    /\ IsDigit(d[1])
    /\ IsDigit(d[Len(d)])
    /\ \A i \in 1..Len(d) : IsDigit(d[i]) \/ d[i] = "_"
    /\ \A i \in 1..(Len(d) - 1) : ~(d[i] = "_" /\ d[i + 1] = "_")

RECURSIVE DigitsValue(_, _)
DigitsValue(d, acc) ==
    IF d = <<>> THEN acc
    ELSE IF d[1] = "_" THEN DigitsValue(Tail(d), acc)
    ELSE DigitsValue(Tail(d), 10 * acc + DigitVal(d[1]))

\* int(s): [ok |-> TRUE, val |-> n], or ok = FALSE where Python raises ValueError.
int(s) ==
    LET t == Strip(s)
        signed == t # <<>> /\ t[1] \in {"+", "-"}
        d == IF signed THEN Tail(t) ELSE t
    IN  IF ~DigitsWellFormed(d) THEN [ok |-> FALSE, val |-> 0]
        ELSE [ok |-> TRUE,
              val |-> IF signed /\ t[1] = "-" THEN 0 - DigitsValue(d, 0)
                      ELSE DigitsValue(d, 0)]

\* int(card.rank) for the ranks that are not J, Q, K or A.
RankText(rank) == IF rank = "10" THEN <<"1", "0">> ELSE <<rank>>

(***************************************************************************)
(* Hand.                                                                   *)
(***************************************************************************)
\* Hand.add_card
add_card(cards, card) == Append(cards, card)

\* The for loop of calculate_value: [value, aces] after the cards.
RECURSIVE SumCards(_, _, _)
SumCards(cards, value, aces) ==
    IF cards = <<>> THEN [value |-> value, aces |-> aces]
    ELSE LET rank == cards[1].rank IN
         IF rank \in {"J", "Q", "K"} THEN SumCards(Tail(cards), value + 10, aces)
         ELSE IF rank = "A" THEN SumCards(Tail(cards), value + 11, aces + 1)
         ELSE SumCards(Tail(cards), value + int(RankText(rank)).val, aces)

\* Mutant of AdjustAces: `if` for `while`, so at most one Ace is reduced.
AdjustAcesOnce(value, aces) ==
    IF value > BustLimit /\ aces # 0 THEN value - 10 ELSE value

\* The while loop of calculate_value.
RECURSIVE AdjustAces(_, _)
AdjustAces(value, aces) ==
    IF value > BustLimit /\ aces # 0 THEN AdjustAces(value - 10, aces - 1)
    ELSE value

\* Mutant of calculate_value: each Ace is settled when it is met, as 11 if
\* that fits under the limit and as 1 otherwise, and never revised.
RECURSIVE SumAceWhenSeen(_, _)
SumAceWhenSeen(cards, value) ==
    IF cards = <<>> THEN value
    ELSE LET rank == cards[1].rank IN
         IF rank \in {"J", "Q", "K"} THEN SumAceWhenSeen(Tail(cards), value + 10)
         ELSE IF rank = "A"
              THEN SumAceWhenSeen(Tail(cards),
                                  IF value + 11 <= BustLimit THEN value + 11
                                  ELSE value + 1)
         ELSE SumAceWhenSeen(Tail(cards), value + int(RankText(rank)).val)

calculate_value_AceWhenSeen(cards) == SumAceWhenSeen(cards, 0)

\* Hand.calculate_value
calculate_value(cards) ==
    LET s == SumCards(cards, 0, 0) IN AdjustAces(s.value, s.aces)

(***************************************************************************)
(* Shoe.                                                                   *)
(***************************************************************************)
\* One pass of shuffle's outer loop: for suit in suits: for rank in ranks.
Deck ==
    [i \in 1..(Len(suits) * Len(ranks)) |->
        Card(ranks[((i - 1) % Len(ranks)) + 1], suits[((i - 1) \div Len(ranks)) + 1])]

\* Mutant of AppendDecks: `range(self.deck_count + 1)`, one deck too many.
RECURSIVE AppendDecks_OneMore(_, _)
AppendDecks_OneMore(sh, n) ==
    IF n < 0 THEN sh ELSE AppendDecks_OneMore(sh \o Deck, n - 1)

\* shuffle's loops: deck_count decks appended to the current contents.
RECURSIVE AppendDecks(_, _)
AppendDecks(sh, n) ==
    IF n = 0 THEN sh ELSE AppendDecks(sh \o Deck, n - 1)

RECURSIVE GCD(_, _)
GCD(a, b) == IF b = 0 THEN a ELSE GCD(b, a % b)

\* The outcomes of random.shuffle that the model draws from: the permutation
\* with seed <<a, b>> puts the element at 0-based index (a*i + b) mod n at index i.
Strides == {1, 7, 17, 19, 29, 31}
Seeds(n) == {<<a, b>> : a \in {x \in Strides : GCD(x, n) = 1}, b \in 0..MaxOffset}
NoSeed == <<1, 0>>

\* random.shuffle(list)
random_shuffle(list, seed) ==
    [i \in 1..Len(list) |-> list[((seed[1] * (i - 1) + seed[2]) % Len(list)) + 1]]

\* Shoe.shuffle
shuffle(sh, n, seed) == random_shuffle(AppendDecks(sh, n), seed)

\* Shoe.is_empty
is_empty(sh) == Len(sh) = 0

\* Mutant of deal_card: the reshuffle uses the default deck count.
deal_card_DefaultDecks(sh, n, seed) ==
    LET full == IF is_empty(sh) THEN shuffle(sh, DefaultDeckCount, seed) ELSE sh
    IN  [card |-> full[Len(full)], shoe |-> SubSeq(full, 1, Len(full) - 1)]

\* Shoe.deal_card: the card returned and the shoe left.
deal_card(sh, n, seed) ==
    LET full == IF is_empty(sh) THEN shuffle(sh, n, seed) ELSE sh
    IN  [card |-> full[Len(full)], shoe |-> SubSeq(full, 1, Len(full) - 1)]

\* The seeds a deal_card on sh may consume: one per outcome of the reshuffle.
DealSeeds(sh, n, k) ==
    IF Len(sh) < k THEN Seeds(Len(Deck) * n) ELSE {NoSeed}

(***************************************************************************)
(* Player, Dealer, Table.                                                  *)
(***************************************************************************)
\* The lines typed at the three prompts.
BetLines ==
    { <<"a", "b", "c">>, <<>>, <<"1", ".", "5">>, <<"0">>, <<"-", "5">>,
      <<"1">>, <<" ", "5", "0", " ">>, <<"9", "9">>, <<"1", "0", "0">>,
      <<"1", "0", "1">>,
      <<"1", "0", "0", "0">> }
ActionLines ==
    { <<"h">>, <<"H">>, <<"s">>, <<"S">>, <<"x">>, <<>>, <<"h", "i", "t">> }
ContinueLines ==
    { <<"y">>, <<"Y">>, <<"n">>, <<"N">>, <<>>, <<"y", "e", "s">>, <<"q">> }
NoLine == <<>>

\* Mutant of place_bet: no check against the balance.
place_bet_NoBalanceCheck(line, bal) ==
    LET r == int(line) IN
    IF ~r.ok THEN [returned |-> FALSE, bet |-> 0]
    ELSE IF r.val < 1 THEN [returned |-> FALSE, bet |-> 0]
    ELSE [returned |-> TRUE, bet |-> r.val]

\* Mutant of place_bet: `bet < 0` for `bet < 1`.
place_bet_AcceptsZero(line, bal) ==
    LET r == int(line) IN
    IF ~r.ok THEN [returned |-> FALSE, bet |-> 0]
    ELSE IF r.val < 0 THEN [returned |-> FALSE, bet |-> 0]
    ELSE IF r.val > bal THEN [returned |-> FALSE, bet |-> 0]
    ELSE [returned |-> TRUE, bet |-> r.val]

\* Mutant of place_bet: `bet >= self.balance` for `bet > self.balance`.
place_bet_BelowBalance(line, bal) ==
    LET r == int(line) IN
    IF ~r.ok THEN [returned |-> FALSE, bet |-> 0]
    ELSE IF r.val < 1 THEN [returned |-> FALSE, bet |-> 0]
    ELSE IF r.val >= bal THEN [returned |-> FALSE, bet |-> 0]
    ELSE [returned |-> TRUE, bet |-> r.val]

\* One pass of place_bet's loop on the line read: the bet returned, or
\* returned = FALSE when the loop prompts again.
place_bet(line, bal) ==
    LET r == int(line) IN
    IF ~r.ok THEN [returned |-> FALSE, bet |-> 0]
    ELSE IF r.val < 1 THEN [returned |-> FALSE, bet |-> 0]
    ELSE IF r.val > bal THEN [returned |-> FALSE, bet |-> 0]
    ELSE [returned |-> TRUE, bet |-> r.val]

\* Mutant of determine_winner: the dealer's bust is tested before the player's.
determine_winner_DealerBustFirst(ph, dh) ==
    LET player_value == calculate_value(ph)
        dealer_value == calculate_value(dh)
    IN  IF dealer_value > BustLimit THEN "You win! Dealer busted."
        ELSE IF player_value > BustLimit THEN "Dealer wins! You busted."
        ELSE IF player_value > dealer_value THEN "You win!"
        ELSE IF dealer_value > player_value THEN "Dealer wins!"
        ELSE "It's a tie!"

\* Table.determine_winner
determine_winner(ph, dh) ==
    LET player_value == calculate_value(ph)
        dealer_value == calculate_value(dh)
    IN  IF player_value > BustLimit THEN "Dealer wins! You busted."
        ELSE IF dealer_value > BustLimit THEN "You win! Dealer busted."
        ELSE IF player_value > dealer_value THEN "You win!"
        ELSE IF dealer_value > player_value THEN "Dealer wins!"
        ELSE "It's a tie!"

\* `sub in result` for the strings determine_winner returns.
Contains(sub, res) ==
    CASE sub = "You win" -> res \in {"You win! Dealer busted.", "You win!"}
      [] sub = "It's a tie" -> res = "It's a tie!"
      [] OTHER -> FALSE

\* Mutant of Payout: a win credits the bet once.
Payout_WinPaysBet(res, bal, b) ==
    IF Contains("You win", res) THEN bal + b
    ELSE IF Contains("It's a tie", res) THEN bal + b
    ELSE bal

\* Mutant of Payout: a tie does not return the bet.
Payout_TieKeepsBet(res, bal, b) ==
    IF Contains("You win", res) THEN bal + b * 2 ELSE bal

\* play_round's balance update after determine_winner.
Payout(res, bal, b) ==
    IF Contains("You win", res) THEN bal + b * 2
    ELSE IF Contains("It's a tie", res) THEN bal + b
    ELSE bal

\* play_table's loop test, entered with no hand dealt: the next round's bet
\* prompt, or the end of the session.
EnterRound(bal) == IF bal > 0 THEN "bet" ELSE "done"

\* play_round, lines 169-170: place_bet reads a line; a valid bet is deducted.
Bet(line) ==
    /\ pc = "bet"
    /\ inp' = line
    /\ LET r == place_bet(line, balance) IN
       IF r.returned
       THEN /\ bet' = r.bet
            /\ balance' = balance - r.bet
            /\ pc' = "deal"
       ELSE UNCHANGED <<bet, balance, pc>>
    /\ UNCHANGED <<shoe, deck_count, instances, player_hand, dealer_hand,
                   result, balance0, rounds, deals>>

\* Mutant of InitialDeal: the player is dealt both cards before the dealer.
InitialDeal_PlayerFirst(seed) ==
    /\ pc = "deal"
    /\ LET d1 == deal_card(shoe, deck_count, seed)
           d2 == deal_card(d1.shoe, deck_count, seed)
           d3 == deal_card(d2.shoe, deck_count, seed)
           d4 == deal_card(d3.shoe, deck_count, seed)
       IN  /\ player_hand' = add_card(add_card(player_hand, d1.card), d2.card)
           /\ dealer_hand' = add_card(add_card(dealer_hand, d3.card), d4.card)
           /\ shoe' = d4.shoe
    /\ deals' = deals + 4
    /\ pc' = "player_turn"
    /\ UNCHANGED <<deck_count, instances, balance, bet, result, inp, balance0,
                   rounds>>

\* play_round, lines 173-176: the initial deal.
InitialDeal(seed) ==
    /\ pc = "deal"
    /\ LET d1 == deal_card(shoe, deck_count, seed)
           d2 == deal_card(d1.shoe, deck_count, seed)
           d3 == deal_card(d2.shoe, deck_count, seed)
           d4 == deal_card(d3.shoe, deck_count, seed)
       IN  /\ player_hand' = add_card(add_card(player_hand, d1.card), d3.card)
           /\ dealer_hand' = add_card(add_card(dealer_hand, d2.card), d4.card)
           /\ shoe' = d4.shoe
    /\ deals' = deals + 4
    /\ pc' = "player_turn"
    /\ UNCHANGED <<deck_count, instances, balance, bet, result, inp, balance0,
                   rounds>>

\* Mutant of AfterHit: a bust returns True, so the dealer plays.
AfterHit_DealerPlays(ph) ==
    IF calculate_value(ph) > BustLimit THEN "dealer_turn" ELSE "player_turn"

\* Mutant of AfterHit: `> 22` for `> 21`.
AfterHit_Over22(ph) ==
    IF calculate_value(ph) > BustLimit + 1 THEN "round_end" ELSE "player_turn"

\* player_turn, lines 141-145: a bust returns False, which ends play_round
\* without a dealer's turn; otherwise the prompt is shown again.
AfterHit(ph) ==
    IF calculate_value(ph) > BustLimit THEN "round_end" ELSE "player_turn"

\* player_turn, action 'h': one card; a bust returns False and play_round ends.
Hit(line, seed) ==
    /\ pc = "player_turn"
    /\ lower(line) = <<"h">>
    /\ inp' = line
    /\ LET d == deal_card(shoe, deck_count, seed) IN
           /\ player_hand' = add_card(player_hand, d.card)
           /\ shoe' = d.shoe
    /\ deals' = deals + 1
    /\ pc' = AfterHit(player_hand')
    /\ UNCHANGED <<deck_count, instances, balance, dealer_hand, bet, result,
                   balance0, rounds>>

\* player_turn, action 's': returns True and the dealer's turn starts.
Stand(line) ==
    /\ pc = "player_turn"
    /\ lower(line) = <<"s">>
    /\ inp' = line
    /\ pc' = "dealer_turn"
    /\ UNCHANGED <<shoe, deck_count, instances, balance, player_hand,
                   dealer_hand, bet, result, balance0, rounds, deals>>

\* Mutant of InvalidAction: the else branch returns True, as a stand does.
InvalidAction_Stands(line) ==
    /\ pc = "player_turn"
    /\ lower(line) \notin {<<"h">>, <<"s">>}
    /\ inp' = line
    /\ pc' = "dealer_turn"
    /\ UNCHANGED <<shoe, deck_count, instances, balance, player_hand,
                   dealer_hand, bet, result, balance0, rounds, deals>>

\* player_turn, any other line: the prompt is shown again.
InvalidAction(line) ==
    /\ pc = "player_turn"
    /\ lower(line) \notin {<<"h">>, <<"s">>}
    /\ inp' = line
    /\ UNCHANGED <<shoe, deck_count, instances, balance, player_hand,
                   dealer_hand, bet, result, pc, balance0, rounds, deals>>

\* Mutant of dealer_draws: `<= 17` for `< 17`, so the dealer hits on 17.
dealer_draws_On17(dh) == calculate_value(dh) <= DealerStand

\* Dealer.play_turn's loop test.
dealer_draws(dh) == calculate_value(dh) < DealerStand

\* Dealer.play_turn, one pass of the loop.
DealerDraw(seed) ==
    /\ pc = "dealer_turn"
    /\ dealer_draws(dealer_hand)
    /\ LET d == deal_card(shoe, deck_count, seed) IN
           /\ dealer_hand' = add_card(dealer_hand, d.card)
           /\ shoe' = d.shoe
    /\ deals' = deals + 1
    /\ UNCHANGED <<deck_count, instances, balance, player_hand, bet, result,
                   pc, inp, balance0, rounds>>

\* Dealer.play_turn returns.
DealerStop ==
    /\ pc = "dealer_turn"
    /\ ~dealer_draws(dealer_hand)
    /\ pc' = "settle"
    /\ UNCHANGED <<shoe, deck_count, instances, balance, player_hand,
                   dealer_hand, bet, result, inp, balance0, rounds, deals,
                   instances>>

\* play_round, lines 186-197: determine_winner and the balance update.
Settle ==
    /\ pc = "settle"
    /\ result' = determine_winner(player_hand, dealer_hand)
    /\ balance' = Payout(result', balance, bet)
    /\ pc' = "round_end"
    /\ UNCHANGED <<shoe, deck_count, instances, player_hand, dealer_hand, bet,
                   inp, balance0, rounds, deals>>

\* Mutant of AfterRound: the test of the balance is missing.
AfterRound_NoCheck(bal) == "continue"

\* play_table, line 207: where the loop goes after play_round returns.
AfterRound(bal) == IF bal = 0 THEN "done" ELSE "continue"

\* play_table, lines 207-209.
CheckFunds ==
    /\ pc = "round_end"
    /\ pc' = AfterRound(balance)
    /\ UNCHANGED <<shoe, deck_count, instances, balance, player_hand,
                   dealer_hand, bet, result, inp, balance0, rounds, deals,
                   instances>>

\* Mutant of plays_again: every answer but 'n' continues.
plays_again_UnlessN(line) == lower(line) # <<"n">>

\* play_table's test of the answer to the continue prompt (line 211).
plays_again(line) == lower(line) = <<"y">>

\* Mutant of Continue: the dealer's hand is not reset.
Continue_DealerKeepsHand(line) ==
    /\ pc = "continue"
    /\ inp' = line
    /\ IF plays_again(line)
       THEN /\ rounds < MaxRounds
            /\ player_hand' = <<>>
            /\ pc' = EnterRound(balance)
            /\ rounds' = rounds + 1
            /\ balance0' = balance
            /\ bet' = 0
            /\ result' = ""
            /\ UNCHANGED dealer_hand
       ELSE /\ pc' = "done"
            /\ UNCHANGED <<player_hand, dealer_hand, rounds, balance0, bet,
                           result>>
    /\ UNCHANGED <<shoe, deck_count, instances, balance, deals>>

\* play_table, lines 210-216 and the loop test: 'y' resets the hands and starts
\* the next round; any other answer ends the session.
\* `more` bounds the number of rounds explored.
ContinueWhile(line, more) ==
    /\ pc = "continue"
    /\ inp' = line
    /\ IF plays_again(line)
       THEN /\ more
            /\ player_hand' = <<>>
            /\ dealer_hand' = <<>>
            /\ pc' = EnterRound(balance)
            /\ rounds' = rounds + 1
            /\ balance0' = balance
            /\ bet' = 0
            /\ result' = ""
       ELSE /\ pc' = "done"
            /\ UNCHANGED <<player_hand, dealer_hand, rounds, balance0, bet,
                           result>>
    /\ UNCHANGED <<shoe, deck_count, instances, balance, deals>>

Continue(line) == ContinueWhile(line, rounds < MaxRounds)

\* Table() and the entry of play_table: a freshly shuffled shoe of the default
\* deck count, the starting balance, empty hands, the first bet prompt.
Init ==
    /\ deck_count = DefaultDeckCount
    /\ \E seed \in Seeds(Len(Deck) * DefaultDeckCount) :
           shoe = shuffle(<<>>, DefaultDeckCount, seed)
    /\ balance = StartBalance
    /\ player_hand = <<>>
    /\ dealer_hand = <<>>
    /\ bet = 0
    /\ result = ""
    /\ pc = EnterRound(StartBalance)
    /\ inp = NoLine
    /\ balance0 = StartBalance
    /\ rounds = 1
    /\ deals = 0
    /\ instances = <<>>

Next ==
    \/ \E line \in BetLines : Bet(line)
    \/ \E seed \in DealSeeds(shoe, deck_count, 4) : InitialDeal(seed)
    \/ \E line \in ActionLines, seed \in DealSeeds(shoe, deck_count, 1) : Hit(line, seed)
    \/ \E line \in ActionLines : Stand(line)
    \/ \E line \in ActionLines : InvalidAction(line)
    \/ \E seed \in DealSeeds(shoe, deck_count, 1) : DealerDraw(seed)
    \/ DealerStop
    \/ Settle
    \/ CheckFunds
    \/ \E line \in ContinueLines : Continue(line)

Spec == Init /\ [][Next]_vars

(***************************************************************************)
(* SpecLong: one session played until the shoe runs out and is reshuffled. *)
(* While more than LateCards cards of the first shoe are left the player   *)
(* bets 1, stands and answers 'y'; from then on every line is typed, and   *)
(* new rounds start until MaxLateDeals cards of the second shoe are gone.  *)
(***************************************************************************)
LongStrides == {1, 17}
LongSeeds(n) == {s \in Seeds(n) : s[1] \in LongStrides /\ s[2] <= MaxLongOffset}
\* The shuffles of a shoe built outside a session.
CallSeeds(n) == {s \in LongSeeds(n) : s[2] = MaxLongOffset}
LongDealSeeds(sh, n, k) == IF Len(sh) < k THEN LongSeeds(Len(Deck) * n) ELSE {NoSeed}

FirstShoe == Len(Deck) * DefaultDeckCount
FreePlay == deals >= FirstShoe - LateCards
LongBetLines == IF FreePlay THEN BetLines ELSE {<<"1">>}
LongActionLines == IF FreePlay THEN ActionLines ELSE {<<"s">>}
LongContinueLines == IF FreePlay THEN ContinueLines ELSE {<<"y">>}

InitLong ==
    /\ deck_count = DefaultDeckCount
    /\ \E seed \in LongSeeds(FirstShoe) : shoe = shuffle(<<>>, DefaultDeckCount, seed)
    /\ balance = StartBalance
    /\ player_hand = <<>>
    /\ dealer_hand = <<>>
    /\ bet = 0
    /\ result = ""
    /\ pc = EnterRound(StartBalance)
    /\ inp = NoLine
    /\ balance0 = StartBalance
    /\ rounds = 1
    /\ deals = 0
    /\ instances = <<>>

NextLong ==
    \/ \E line \in LongBetLines : Bet(line)
    \/ \E seed \in LongDealSeeds(shoe, deck_count, 4) : InitialDeal(seed)
    \/ \E line \in LongActionLines, seed \in LongDealSeeds(shoe, deck_count, 1) :
           Hit(line, seed)
    \/ \E line \in LongActionLines : Stand(line)
    \/ \E line \in LongActionLines : InvalidAction(line)
    \/ \E seed \in LongDealSeeds(shoe, deck_count, 1) : DealerDraw(seed)
    \/ DealerStop
    \/ Settle
    \/ CheckFunds
    \/ \E line \in LongContinueLines :
           ContinueWhile(line, deals < FirstShoe + MaxLateDeals)

SpecLong == InitLong /\ [][NextLong]_vars

(***************************************************************************)
(* SpecValue: Hand.add_card and Hand.calculate_value on their own.  Every  *)
(* hand of up to MaxHandLen cards is built, and every hand of up to        *)
(* MaxPlayLen cards that was not bust before its last card.                *)
(***************************************************************************)
\* One card of each rank; the suit varies with the rank.
SampleCards ==
    {Card(ranks[i], suits[(i % Len(suits)) + 1]) : i \in 1..Len(ranks)}

InitValue ==
    /\ shoe = <<>>
    /\ deck_count = DefaultDeckCount
    /\ balance = StartBalance
    /\ player_hand = <<>>
    /\ dealer_hand = <<>>
    /\ bet = 0
    /\ result = ""
    /\ pc = "hand"
    /\ inp = NoLine
    /\ balance0 = StartBalance
    /\ rounds = 0
    /\ deals = 0
    /\ instances = <<>>

AddCard(card) ==
    /\ pc = "hand"
    /\ \/ Len(player_hand) < MaxHandLen
       \/ Len(player_hand) < MaxPlayLen /\ calculate_value(player_hand) <= BustLimit
    /\ player_hand' = add_card(player_hand, card)
    /\ UNCHANGED <<shoe, deck_count, instances, balance, dealer_hand, bet,
                   result, pc, inp, balance0, rounds, deals>>

NextValue == \E card \in SampleCards : AddCard(card)

SpecValue == InitValue /\ [][NextValue]_vars

(***************************************************************************)
(* SpecWinner: Table.determine_winner on its own, applied to every pair of *)
(* hands of 2 or 3 cards over WinnerRanks.                                 *)
(***************************************************************************)
WinnerRanks == {"2", "9", "K", "A"}
WinnerCards == {c \in SampleCards : c.rank \in WinnerRanks}
WinnerHands ==
    {<<a, b>> : a \in WinnerCards, b \in WinnerCards}
        \cup {<<a, b, c>> : a \in WinnerCards, b \in WinnerCards, c \in WinnerCards}

InitWinner ==
    /\ shoe = <<>>
    /\ deck_count = DefaultDeckCount
    /\ balance = StartBalance
    /\ player_hand \in WinnerHands
    /\ dealer_hand \in WinnerHands
    /\ bet = 0
    /\ result = ""
    /\ pc = "judge"
    /\ inp = NoLine
    /\ balance0 = StartBalance
    /\ rounds = 0
    /\ deals = 0
    /\ instances = <<>>

Judge ==
    /\ pc = "judge"
    /\ result' = determine_winner(player_hand, dealer_hand)
    /\ pc' = "judged"
    /\ UNCHANGED <<shoe, deck_count, instances, balance, player_hand,
                   dealer_hand, bet, inp, balance0, rounds, deals>>

NextWinner == Judge

SpecWinner == InitWinner /\ [][NextWinner]_vars

(***************************************************************************)
(* SpecShoe: a Shoe on its own, constructed with deck_count in 1..MaxDecks *)
(* and dealt from until MaxExtraDeals cards after its first reshuffle.     *)
(***************************************************************************)
InitShoe ==
    /\ deck_count \in 1..MaxDecks
    /\ \E seed \in Seeds(Len(Deck) * deck_count) :
           shoe = shuffle(<<>>, deck_count, seed)
    /\ balance = StartBalance
    /\ player_hand = <<>>
    /\ dealer_hand = <<>>
    /\ bet = 0
    /\ result = ""
    /\ pc = "shoe"
    /\ inp = NoLine
    /\ balance0 = StartBalance
    /\ rounds = 0
    /\ deals = 0
    /\ instances = <<>>

ShoeDeal(seed) ==
    /\ pc = "shoe"
    /\ deals < Len(Deck) * deck_count + MaxExtraDeals
    /\ shoe' = deal_card(shoe, deck_count, seed).shoe
    /\ deals' = deals + 1
    /\ UNCHANGED <<deck_count, instances, balance, player_hand, dealer_hand,
                   bet, result, pc, inp, balance0, rounds>>

NextShoe == \E seed \in DealSeeds(shoe, deck_count, 1) : ShoeDeal(seed)

SpecShoe == InitShoe /\ [][NextShoe]_vars

(***************************************************************************)
(* SpecShoes: several Shoe objects in one process.  `shoe = []` in the     *)
(* class body makes the list an attribute of the class; no method assigns  *)
(* self.shoe, so an instance holds deck_count only and self.shoe is looked *)
(* up in the instance first and then in the class.                         *)
(***************************************************************************)
\* Mutant of Shoe_init: `self.shoe = []` in __init__, a list of the instance.
Shoe_init_OwnList(n) == [deck_count |-> n, shoe |-> <<>>]

\* Shoe.__init__, line 19: the attributes the new instance holds.
Shoe_init(n) == [deck_count |-> n]

\* self.shoe
self_shoe(self) == IF "shoe" \in DOMAIN self THEN self.shoe ELSE shoe

\* The Shoe objects after a method of `self` has left its list as `list`.
\* The list is changed in place: it stays the one self.shoe names.
InPlace(objects, i, list) ==
    IF "shoe" \in DOMAIN objects[i]
    THEN [objects EXCEPT ![i] = [objects[i] EXCEPT !.shoe = list]]
    ELSE objects

InitShoes ==
    /\ shoe = <<>>
    /\ deck_count = DefaultDeckCount
    /\ balance = StartBalance
    /\ player_hand = <<>>
    /\ dealer_hand = <<>>
    /\ bet = 0
    /\ result = ""
    /\ pc = "shoes"
    /\ inp = NoLine
    /\ balance0 = StartBalance
    /\ rounds = 0
    /\ deals = 0
    /\ instances = <<>>

\* Shoe(n): __init__ stores deck_count and calls shuffle.
NewShoe(n, seed) ==
    /\ pc = "shoes"
    /\ Len(instances) < MaxShoes
    /\ LET self == Shoe_init(n)
           i == Len(instances) + 1
           list == shuffle(self_shoe(self), n, seed)
       IN  /\ instances' = InPlace(Append(instances, self), i, list)
           /\ shoe' = IF "shoe" \in DOMAIN self THEN shoe ELSE list
    /\ UNCHANGED <<deck_count, balance, player_hand, dealer_hand, bet, result,
                   pc, inp, balance0, rounds, deals>>

\* instances[i].deal_card()
DealFrom(i, seed) ==
    /\ pc = "shoes"
    /\ deals < MaxSharedDeals
    /\ LET self == instances[i]
           d == deal_card(self_shoe(self), self.deck_count, seed)
       IN  /\ instances' = InPlace(instances, i, d.shoe)
           /\ shoe' = IF "shoe" \in DOMAIN self THEN shoe ELSE d.shoe
    /\ deals' = deals + 1
    /\ UNCHANGED <<deck_count, balance, player_hand, dealer_hand, bet, result,
                   pc, inp, balance0, rounds>>

NextShoes ==
    \/ \E n \in 1..MaxDecks :
       \E seed \in CallSeeds(Len(self_shoe(Shoe_init(n))) + Len(Deck) * n) :
           NewShoe(n, seed)
    \/ \E i \in 1..Len(instances) :
       \E seed \in LongDealSeeds(self_shoe(instances[i]), instances[i].deck_count, 1) :
           DealFrom(i, seed)

SpecShoes == InitShoes /\ [][NextShoes]_vars

(***************************************************************************)
(* SpecDealer: Dealer.play_turn on its own.  It is called with every hand  *)
(* of 2 or 3 cards over WinnerRanks, on a shoe that is full or has         *)
(* MaxLeft cards or no card left, so that the draws run into the           *)
(* reshuffle.  deals counts the cards drawn by the call.  The loop is      *)
(* sequential code: a pass that can run does run.                          *)
(***************************************************************************)
\* A Dealer and a Shoe before the call.
InitDealer ==
    /\ deck_count \in 1..MaxDecks
    /\ shoe = <<>>
    /\ balance = StartBalance
    /\ player_hand = <<>>
    /\ dealer_hand = <<>>
    /\ bet = 0
    /\ result = ""
    /\ pc = "call"
    /\ inp = NoLine
    /\ balance0 = StartBalance
    /\ rounds = 0
    /\ deals = 0
    /\ instances = <<>>

\* play_turn is called with the hand given, on a shoe shuffled by seed of
\* which `left` cards are left.
CallPlayTurn(hand, seed, left) ==
    /\ pc = "call"
    /\ dealer_hand' = hand
    /\ shoe' = SubSeq(shuffle(<<>>, deck_count, seed), 1, left)
    /\ pc' = "dealer_turn"
    /\ UNCHANGED <<deck_count, instances, balance, player_hand, bet, result,
                   inp, balance0, rounds, deals>>

DealerPass ==
    \/ \E seed \in LongDealSeeds(shoe, deck_count, 1) : DealerDraw(seed)
    \/ DealerStop

NextDealer ==
    \/ \E hand \in WinnerHands, seed \in CallSeeds(Len(Deck) * deck_count),
          left \in {0, MaxLeft, Len(Deck) * deck_count} :
           CallPlayTurn(hand, seed, left)
    \/ \E seed \in LongDealSeeds(shoe, deck_count, 1) : DealerDraw(seed)
    \/ DealerStop

SpecDealer == InitDealer /\ [][NextDealer]_vars /\ WF_vars(DealerPass)

(***************************************************************************)
(* Definitions the properties below share.                                 *)
(***************************************************************************)
\* play_round has returned and the hands of the round are still on the table.
RoundComplete == pc \in {"round_end", "continue", "done"}

PlayerValue == calculate_value(player_hand)
DealerValue == calculate_value(dealer_hand)

Front(seq) == SubSeq(seq, 1, Len(seq) - 1)

\* The points of a rank with every Ace counted as 1.
HardPoints(rank) ==
    CASE rank = "A" -> 1
      [] rank \in {"10", "J", "Q", "K"} -> 10
      [] OTHER -> CHOOSE n \in 2..9 : ranks[n - 1] = rank

RECURSIVE HardTotal(_)
HardTotal(cards) ==
    IF cards = <<>> THEN 0 ELSE HardPoints(cards[1].rank) + HardTotal(Tail(cards))

CountRank(cards, rank) == Cardinality({i \in 1..Len(cards) : cards[i].rank = rank})

\* The standard Blackjack total: the largest total not above 21 over all ways
\* to count each Ace as 1 or 11, or the all-Aces-as-1 total when there is none.
StandardTotal(cards) ==
    LET totals == {HardTotal(cards) + 10 * k : k \in 0..CountRank(cards, "A")}
        fitting == {t \in totals : t <= 21}
    IN  IF fitting # {} THEN CHOOSE t \in fitting : \A u \in fitting : u <= t
        ELSE HardTotal(cards)

\* The hand holds exactly the ranks of rs, in any order.
HoldsRanks(cards, rs) ==
    /\ Len(cards) = Len(rs)
    /\ \A i \in 1..Len(ranks) : CountRank(cards, ranks[i]) =
           Cardinality({j \in 1..Len(rs) : rs[j] = ranks[i]})

(***************************************************************************)
(* C1: when a round is complete, with bet b and balance B before betting:  *)
(* a win (player not bust, and dealer bust or player higher) leaves B + b, *)
(* equal values leave B, a loss (player bust, or dealer not bust and       *)
(* higher) leaves B - b.                                                   *)
(***************************************************************************)
C1_RoundPayout ==
    RoundComplete =>
        /\ (PlayerValue <= 21 /\ (DealerValue > 21 \/ PlayerValue > DealerValue))
               => balance = balance0 + bet
        /\ (PlayerValue = DealerValue) => balance = balance0
        /\ (PlayerValue > 21 \/ (DealerValue <= 21 /\ DealerValue > PlayerValue))
               => balance = balance0 - bet

C1_Witness ==
    /\ pc = "round_end"
    /\ PlayerValue <= 21
    /\ DealerValue <= 21
    /\ PlayerValue > DealerValue
    /\ bet > 1
    /\ balance = balance0 + bet

\* Reachability of the other outcomes of a round.
C1_PushReached == pc = "round_end" /\ PlayerValue = DealerValue /\ bet > 1
C1_LossReached == pc = "round_end" /\ DealerValue <= 21 /\ DealerValue > PlayerValue
C1_DealerBustReached == pc = "round_end" /\ DealerValue > 21

(***************************************************************************)
(* C2: in every reachable state of a session the balance is a non-negative *)
(* integer.                                                                *)
(***************************************************************************)
C2_BalanceNonNegative == balance \in Nat

C2_Witness == pc = "done" /\ balance = 0 /\ rounds = 2

\* What C3 calls a line that is not a valid bet.
NoDigit(line) == \A i \in 1..Len(line) : ~IsDigit(line[i])

\* An optional minus sign followed by digits only.
PlainInteger(line) ==
    LET d == IF line # <<>> /\ line[1] = "-" THEN Tail(line) ELSE line
    IN  d # <<>> /\ \A i \in 1..Len(d) : IsDigit(d[i])

RECURSIVE Decimal(_)
Decimal(d) ==
    IF d = <<>> THEN 0 ELSE 10 * Decimal(Front(d)) + DigitVal(d[Len(d)])

PlainValue(line) ==
    IF line[1] = "-" THEN 0 - Decimal(Tail(line)) ELSE Decimal(line)

\* A character that no integer literal holds (a letter, a point, ...).
ForeignChar(line) ==
    \E i \in 1..Len(line) : ~IsDigit(line[i]) /\ line[i] \notin {"+", "-", "_", " "}

BadBetLine(line, bal) ==
    \/ NoDigit(line)
    \/ ForeignChar(line)
    \/ PlainInteger(line) /\ (PlainValue(line) < 1 \/ PlainValue(line) > bal)

(***************************************************************************)
(* C3: place_bet returns only a bet with 1 <= bet <= balance; a line that  *)
(* is not numeric (no digit, or a character no integer literal holds), or  *)
(* that is a plain integer below 1 or above the balance, prompts again and *)
(* leaves the round in BETTING with balance, hands and shoe unchanged.     *)
(***************************************************************************)
C3_BetValidated ==
    [][pc = "bet" =>
          /\ pc' # "bet" => (bet' >= 1 /\ bet' <= balance)
          /\ BadBetLine(inp', balance) =>
                 /\ pc' = "bet"
                 /\ UNCHANGED <<balance, player_hand, dealer_hand, shoe, bet,
                                deals>>
      ]_vars

C3_Witness ==
    /\ pc = "bet"
    /\ inp = <<"1", "0", "1">>
    /\ balance = 100
    /\ rounds = 2

(***************************************************************************)
(* C4: calculate_value returns the standard Blackjack total of every hand; *)
(* in particular {A,A,9} -> 21, {A,A,A,8} -> 21, {10,A} -> 21,             *)
(* {K,Q} -> 20, {2,3,4,5,6} -> 20.                                         *)
(***************************************************************************)
C4_StandardValue ==
    /\ calculate_value(player_hand) = StandardTotal(player_hand)
    /\ HoldsRanks(player_hand, <<"A", "A", "9">>) => calculate_value(player_hand) = 21
    /\ HoldsRanks(player_hand, <<"A", "A", "A", "8">>)
           => calculate_value(player_hand) = 21
    /\ HoldsRanks(player_hand, <<"10", "A">>) => calculate_value(player_hand) = 21
    /\ HoldsRanks(player_hand, <<"K", "Q">>) => calculate_value(player_hand) = 20
    /\ HoldsRanks(player_hand, <<"2", "3", "4", "5", "6">>)
           => calculate_value(player_hand) = 20

C4_Witness ==
    /\ HoldsRanks(player_hand, <<"A", "A", "A", "8">>)
    /\ player_hand[4].rank = "A"
    /\ calculate_value(player_hand) = 21

C4_FiveCardsReached == HoldsRanks(player_hand, <<"2", "3", "4", "5", "6">>)

\* The two halves of C5: the states in which the player is bust, and the
\* steps that lead to them.
C5_BustState ==
    PlayerValue > 21 =>
        /\ RoundComplete
        /\ Len(dealer_hand) = 2
        /\ result = ""
        /\ balance = balance0 - bet

C5_BustStep ==
    calculate_value(player_hand') > 21 =>
        /\ dealer_hand' = dealer_hand
        /\ balance' = balance
        /\ pc = "player_turn" => pc' = "round_end"

(***************************************************************************)
(* C5: once a hit has made the player's value exceed 21 the round is over: *)
(* the hit itself ends play_round, the dealer's hand keeps exactly its 2   *)
(* initial cards, determine_winner does not run and no credit is made, so  *)
(* the balance is the balance before betting minus the bet.                *)
(***************************************************************************)
C5_BustEndsRound == []C5_BustState /\ [][C5_BustStep]_vars

C5_Witness ==
    /\ pc = "round_end"
    /\ PlayerValue > 21
    /\ Len(player_hand) >= 3
    /\ DealerValue < 17

\* The two halves of C6: each step of the dealer's turn, and its result.
C6_TurnStep ==
    pc = "dealer_turn" =>
        IF DealerValue < 17
        THEN /\ pc' = "dealer_turn"
             /\ Len(dealer_hand') = Len(dealer_hand) + 1
             /\ Front(dealer_hand') = dealer_hand
             /\ deals' = deals + 1
        ELSE /\ pc' = "settle"
             /\ dealer_hand' = dealer_hand
             /\ shoe' = shoe
             /\ deals' = deals

C6_TurnResult ==
    pc = "settle" =>
        /\ DealerValue >= 17
        /\ Len(dealer_hand) > 2 => calculate_value(Front(dealer_hand)) < 17
        /\ calculate_value(SubSeq(dealer_hand, 1, 2)) >= 17 => Len(dealer_hand) = 2

(***************************************************************************)
(* C6: in the dealer's turn a card is drawn exactly when the dealer's      *)
(* value is below 17, otherwise play_turn returns with the hand as it is;  *)
(* when play_turn has returned the value is >= 17, also on a soft 17, the  *)
(* hand before the last card drawn in the turn was worth less than 17, and *)
(* a dealer whose 2 initial cards are worth 17 or more has drawn nothing.  *)
(***************************************************************************)
C6_DealerPolicy == [][C6_TurnStep]_vars /\ []C6_TurnResult

\* The dealer drew and stands on a soft 17.
C6_Witness ==
    /\ pc = "settle"
    /\ Len(dealer_hand) > 2
    /\ DealerValue = 17
    /\ HardTotal(dealer_hand) = 7

\* The dealer stands on a soft 17 of 2 cards.
C6_SoftStandReached ==
    /\ pc = "settle"
    /\ Len(dealer_hand) = 2
    /\ DealerValue = 17
    /\ HardTotal(dealer_hand) = 7

\* The three outcomes among the strings determine_winner returns.
DealerWins(res) == res \in {"Dealer wins! You busted.", "Dealer wins!"}
PlayerWins(res) == res \in {"You win! Dealer busted.", "You win!"}
Tie(res) == res = "It's a tie!"

(***************************************************************************)
(* C7: determine_winner gives the dealer the win when the player's value   *)
(* exceeds 21, whatever the dealer holds; otherwise the player the win     *)
(* when the dealer's value exceeds 21; otherwise the win to the strictly   *)
(* higher value; equal values are a tie.                                   *)
(***************************************************************************)
C7_WinnerClasses ==
    pc = "judged" =>
        /\ PlayerValue > 21 => DealerWins(result)
        /\ (PlayerValue <= 21 /\ DealerValue > 21) => PlayerWins(result)
        /\ (PlayerValue <= 21 /\ DealerValue <= 21 /\ PlayerValue > DealerValue)
               => PlayerWins(result)
        /\ (PlayerValue <= 21 /\ DealerValue <= 21 /\ DealerValue > PlayerValue)
               => DealerWins(result)
        /\ (PlayerValue <= 21 /\ PlayerValue = DealerValue) => Tie(result)

\* Both hands are bust and the dealer wins.
C7_Witness ==
    /\ pc = "judged"
    /\ PlayerValue > 21
    /\ DealerValue > 21
    /\ DealerWins(result)

\* The two halves of C8: each deal_card, and the length after each number of deals.
C8_DealStep ==
    pc = "shoe" =>
        IF Len(shoe) > 0 THEN shoe' = Front(shoe)
        ELSE Len(shoe') = deck_count * 52 - 1

C8_ShoeLength ==
    pc = "shoe" =>
        /\ deals <= deck_count * 52 => Len(shoe) = deck_count * 52 - deals
        /\ deals > deck_count * 52 => Len(shoe) = 2 * deck_count * 52 - deals
        /\ deck_count = 1 =>
               /\ deals = 0 => Len(shoe) = 52
               /\ deals = 52 => Len(shoe) = 0
               /\ deals = 53 => Len(shoe) = 51

(***************************************************************************)
(* C8: deal_card on a non-empty shoe removes exactly one card; on an empty *)
(* shoe of deck count N it leaves N*52 - 1 cards.  A shoe of deck count N  *)
(* holds N*52 cards when constructed, none after N*52 deals and N*52 - 1   *)
(* after the next; for N = 1: 52, 0 after 52 deals, 51 after the 53rd.     *)
(***************************************************************************)
C8_ShoeDeals == [][C8_DealStep]_vars /\ []C8_ShoeLength

C8_Witness == pc = "shoe" /\ deck_count = 1 /\ deals = 53 /\ Len(shoe) = 51

\* What C9 asks of each step.
C9_Step ==
    /\ (pc = "round_end" /\ balance = 0) =>
           /\ pc' = "done"
           /\ UNCHANGED <<shoe, deck_count, balance, player_hand, dealer_hand,
                          inp, deals, rounds>>
    /\ (pc # "round_end" /\ balance = 0) => pc' \notin {"continue", "bet"}
    /\ pc = "done" => UNCHANGED vars

(***************************************************************************)
(* C9: when a round is complete with a balance of exactly 0 the session    *)
(* ends at once: the next step ends it without reading a line or drawing a *)
(* card, and nothing happens after the session has ended.                  *)
(***************************************************************************)
C9_BrokeEndsSession == [][C9_Step]_vars

C9_Witness == pc = "done" /\ balance = 0 /\ balance0 = bet

\* An answer to the continue prompt that is neither 'y' nor 'n'.
Unrecognized(line) == lower(line) \notin {<<"y">>, <<"n">>}

(***************************************************************************)
(* C10 as stated: a response to the continue prompt that is neither 'y'    *)
(* nor 'n' (in either case) prompts again and does not end the session.    *)
(***************************************************************************)
C10_Original ==
    [][(pc = "continue" /\ Unrecognized(inp')) => pc' = "continue"]_vars

(***************************************************************************)
(* C10 as amended: the continue prompt is never shown again within a       *)
(* round: the answer 'y' (in either case) starts the next round with both  *)
(* hands empty, and every other answer, 'n' or not, ends the session with  *)
(* the balance as it is.                                                   *)
(***************************************************************************)
C10_ContinueAnswer ==
    [][pc = "continue" =>
          IF inp' \in {<<"y">>, <<"Y">>}
          THEN pc' = "bet" /\ player_hand' = <<>> /\ dealer_hand' = <<>>
          ELSE pc' = "done" /\ UNCHANGED <<balance, player_hand, dealer_hand, shoe>>
      ]_vars

C10_Witness == pc = "done" /\ inp = <<"y", "e", "s">> /\ balance > 0

(***************************************************************************)
(* C11: in PLAYER_TURN a line other than 'h' or 's' (in either case) shows *)
(* the prompt again without consuming a turn: the player's hand, the       *)
(* dealer's hand, the shoe and the balance are unchanged and the round     *)
(* stays in PLAYER_TURN.                                                   *)
(***************************************************************************)
C11_InvalidActionFrame ==
    [][(pc = "player_turn" /\ inp' \notin {<<"h">>, <<"H">>, <<"s">>, <<"S">>}) =>
          /\ pc' = "player_turn"
          /\ UNCHANGED <<player_hand, dealer_hand, shoe, balance, bet, deals>>
      ]_vars

C11_Witness ==
    /\ pc = "player_turn"
    /\ inp = <<"h", "i", "t">>
    /\ Len(player_hand) = 2
    /\ Len(dealer_hand) = 2

\* The two halves of C12: the initial deal as a step, and the hands it leaves.
C12_DealStep ==
    pc = "deal" =>
        /\ pc' = "player_turn"
        /\ deals' = deals + 4
        /\ Len(shoe) >= 4 =>
               /\ shoe' = SubSeq(shoe, 1, Len(shoe) - 4)
               /\ player_hand' = <<shoe[Len(shoe)], shoe[Len(shoe) - 2]>>
               /\ dealer_hand' = <<shoe[Len(shoe) - 1], shoe[Len(shoe) - 3]>>

C12_DealtHands ==
    /\ pc = "deal" => (player_hand = <<>> /\ dealer_hand = <<>>)
    /\ pc \in {"player_turn", "dealer_turn", "settle"} =>
           (Len(player_hand) >= 2 /\ Len(dealer_hand) >= 2)

(***************************************************************************)
(* C12: the initial deal of every round draws exactly 4 cards from the     *)
(* shoe: the 1st and 3rd drawn are the player's, the 2nd and 4th the       *)
(* dealer's, and PLAYER_TURN is entered with exactly 2 cards in each hand. *)
(***************************************************************************)
C12_InitialDeal ==
    /\ [][C12_DealStep]_vars
    /\ [][pc = "deal" => (Len(player_hand') = 2 /\ Len(dealer_hand') = 2)]_vars
    /\ []C12_DealtHands

C12_Witness ==
    /\ pc = "player_turn"
    /\ rounds = 2
    /\ Len(player_hand) = 2
    /\ Len(dealer_hand) = 2
    /\ player_hand[1].rank # dealer_hand[1].rank

(***************************************************************************)
(* C13: at the start of every round (at every bet prompt, in the first     *)
(* round and in every round reached by answering 'y') both hands are       *)
(* empty.                                                                  *)
(***************************************************************************)
C13_HandsEmptyAtBet == pc = "bet" => (player_hand = <<>> /\ dealer_hand = <<>>)

C13_Witness ==
    /\ pc = "bet"
    /\ rounds = 2
    /\ inp \in {<<"y">>, <<"Y">>}
    /\ player_hand = <<>>
    /\ dealer_hand = <<>>

(***************************************************************************)
(* C19: whenever play_round is in the dealer's turn or at determine_winner *)
(* the player's value is at most 21, and determine_winner never returns    *)
(* "Dealer wins! You busted." in a session: a bust of the player is        *)
(* settled only by player_turn returning False.                            *)
(***************************************************************************)
C19_NoBustAtDealerTurn ==
    /\ pc \in {"dealer_turn", "settle"} => PlayerValue <= 21
    /\ result # "Dealer wins! You busted."
    /\ (RoundComplete /\ PlayerValue > 21) => result = ""

C19_Witness ==
    /\ pc = "settle"
    /\ PlayerValue = 21
    /\ Len(player_hand) >= 3

\* str(n) for n >= 0.
RECURSIVE DecimalText(_)
DecimalText(n) ==
    IF n < 10 THEN <<DigitChars[n + 1]>>
    ELSE Append(DecimalText(n \div 10), DigitChars[(n % 10) + 1])

(***************************************************************************)
(* C20: at every bet prompt the balance is at least 1, and some line (a    *)
(* number in 1..balance) makes place_bet return; a bet prompt with balance *)
(* 0 is unreachable.                                                       *)
(***************************************************************************)
C20_BetPromptHasFunds ==
    pc = "bet" =>
        /\ balance >= 1
        /\ \E b \in 1..balance : place_bet(DecimalText(b), balance).returned

C20_Witness ==
    /\ pc = "bet"
    /\ rounds = 2
    /\ balance = 1

\* The hand rearranged by the permutation p of its positions.
Rearranged(cards, p) == [k \in 1..Len(cards) |-> cards[p[k]]]

\* The hand without the card at position i.
Without(cards, i) == SubSeq(cards, 1, i - 1) \o SubSeq(cards, i + 1, Len(cards))

\* The one arrangement of a multiset of cards that follows the order of Deck.
DeckIndex == [card \in Cards |-> CHOOSE i \in 1..Len(Deck) : Deck[i] = card]

RECURSIVE InDeckOrder(_)
InDeckOrder(cards) ==
    IF cards = <<>> THEN <<>>
    ELSE LET m == CHOOSE i \in 1..Len(cards) :
                      \A j \in 1..Len(cards) :
                          DeckIndex[cards[i]] < DeckIndex[cards[j]]
                              \/ (DeckIndex[cards[i]] = DeckIndex[cards[j]] /\ i <= j)
         IN  <<cards[m]>> \o InDeckOrder(Without(cards, m))

(***************************************************************************)
(* C16: calculate_value does not depend on the order of the cards: a hand  *)
(* has the value of the arrangement of its cards in deck order, so two     *)
(* hands holding the same multiset of cards have the same value; for short *)
(* hands every rearrangement is evaluated and leaves the value unchanged.   *)
(***************************************************************************)
C16_OrderIndependent ==
    /\ calculate_value(player_hand) = calculate_value(InDeckOrder(player_hand))
    /\ Len(player_hand) <= MaxHandLen =>
           \A p \in Permutations(1..Len(player_hand)) :
               calculate_value(Rearranged(player_hand, p)) = calculate_value(player_hand)

C16_Witness ==
    /\ Len(player_hand) = 3
    /\ player_hand[1].rank = "A"
    /\ player_hand[2].rank = "K"
    /\ player_hand[3].rank = "5"
    /\ calculate_value(player_hand) = 16
    /\ InDeckOrder(player_hand) # player_hand

\* The outcome of a round by the two values, as the rules of the game have it.
PlayerBeatsDealer ==
    PlayerValue <= 21 /\ (DealerValue > 21 \/ PlayerValue > DealerValue)
PlayerTiesDealer == PlayerValue <= 21 /\ DealerValue = PlayerValue

\* What C14 asks of each step.
C14_Step ==
    /\ pc = "bet" =>
           \/ pc' = "bet" /\ balance' = balance
           \/ /\ pc' = "deal"
              /\ bet' \in 1..balance
              /\ PlainInteger(inp') => PlainValue(inp') = bet'
              /\ balance' = balance - bet'
    /\ pc = "settle" =>
           balance' = balance + (IF PlayerBeatsDealer THEN 2 * bet
                                 ELSE IF PlayerTiesDealer THEN bet
                                 ELSE 0)
    /\ pc \notin {"bet", "settle"} => balance' = balance
    /\ balance' > balance => (pc = "settle" /\ pc' = "round_end")

(***************************************************************************)
(* C14: the balance increases only in the settlement step.  The betting    *)
(* step lowers it by exactly the accepted bet, the settlement adds 2*bet   *)
(* on a win, bet on a tie and nothing on a loss, and every other step (the *)
(* initial deal, hit, stand, invalid input, dealer draws, the reshuffle of *)
(* a depleted shoe, the continue prompt, the reset of the hands) leaves it *)
(* unchanged.                                                              *)
(***************************************************************************)
C14_BalanceSteps == [][C14_Step]_vars

\* A round in which the shoe ran out and was reshuffled, settled as a win on
\* a typed bet.
C14_Witness ==
    /\ pc = "round_end"
    /\ deals > FirstShoe
    /\ deals - Len(player_hand) - Len(dealer_hand) < FirstShoe
    /\ bet > 1
    /\ balance = balance0 + bet

\* The number of times the card is in the list.
CountCard(list, card) == Cardinality({i \in 1..Len(list) : list[i] = card})

\* The cards a step deals, in the order it deals them.
DealtInStep ==
    IF pc = "deal"
    THEN <<player_hand'[1], dealer_hand'[1], player_hand'[2], dealer_hand'[2]>>
    ELSE IF pc = "player_turn" THEN <<player_hand'[Len(player_hand')]>>
    ELSE <<dealer_hand'[Len(dealer_hand')]>>

\* A step in which deal_card found the shoe empty: the list as shuffle left
\* it is the shoe after the step with the cards dealt since put back on it.
C15_ShuffleStep ==
    Len(shoe') > Len(shoe) =>
        LET k == (deals' - deals) - Len(shoe)
            dealt == SubSeq(DealtInStep, Len(DealtInStep) - k + 1, Len(DealtInStep))
            full == Len(shoe') + k
        IN  /\ k >= 1
            /\ full % (52 * deck_count) = 0
            /\ \A card \in Cards :
                   CountCard(shoe', card) + CountCard(dealt, card) = deck_count

C15_FreshShoe ==
    deals = 0 =>
        /\ Len(shoe) % (52 * deck_count) = 0
        /\ Len(shoe) > 0
        /\ \A card \in Cards : CountCard(shoe, card) = deck_count

C15_Multiplicity ==
    /\ \A card \in Cards : CountCard(shoe, card) <= deck_count
    /\ \A i \in 1..Len(shoe) : shoe[i] \in Cards

(***************************************************************************)
(* C15: right after every shuffle of the session's shoe, at construction   *)
(* and at each reshuffle of the depleted shoe, the shoe holds a multiple   *)
(* of 52*N cards, each rank/suit combination once per deck; and in every   *)
(* state no rank/suit combination is in the shoe more often than N times.  *)
(***************************************************************************)
C15_ShoeContents ==
    /\ []C15_FreshShoe
    /\ [][C15_ShuffleStep]_vars
    /\ []C15_Multiplicity

\* The dealer drew the first card of a reshuffled shoe.
C15_Witness ==
    /\ deals > FirstShoe
    /\ Len(shoe) = FirstShoe - 1
    /\ pc = "dealer_turn"
    /\ Len(dealer_hand) > 2

\* SpecDealer: the hand play_turn was called with.
StartHand == SubSeq(dealer_hand, 1, Len(dealer_hand) - deals)

C18_Returned ==
    pc = "settle" =>
        /\ DealerValue >= 17
        /\ calculate_value(StartHand) <= 26 => DealerValue <= 26
        /\ calculate_value(StartHand) >= 17 => (deals = 0 /\ dealer_hand = StartHand)
        /\ Len(StartHand) <= 2 => DealerValue \in 17..26

SeenBy(i) == self_shoe(instances[i])

\* What C17 asks of each step: a construction adds the new Shoe's decks to
\* what every earlier Shoe sees, and a deal from any Shoe takes the top card
\* from what every Shoe sees.
C17_Step ==
    /\ Len(instances') > Len(instances) =>
           LET new == instances'[Len(instances')] IN
           \A i \in 1..Len(instances) :
               /\ Len(SeenBy(i)') = Len(SeenBy(i)) + 52 * new.deck_count
               /\ \A card \in Cards :
                      CountCard(SeenBy(i)', card)
                          = CountCard(SeenBy(i), card) + new.deck_count
    /\ (deals' > deals /\ shoe # <<>>) =>
           \A i \in 1..Len(instances) : SeenBy(i)' = Front(SeenBy(i))

C17_OneList ==
    pc = "shoes" =>
        /\ \A i \in 1..Len(instances) : "shoe" \notin DOMAIN instances[i]
        /\ \A i, j \in 1..Len(instances) : SeenBy(i) = SeenBy(j)

(***************************************************************************)
(* C17: the shoe's cards are one list of the class, shared by all Shoe     *)
(* objects: every Shoe sees the same contents, constructing a second Shoe  *)
(* appends its decks to the list the first one uses, and a card dealt from *)
(* one Shoe is gone from the contents every other Shoe sees.               *)
(***************************************************************************)
C17_SharedShoe == []C17_OneList /\ [][C17_Step]_vars

\* Two Shoes were constructed and cards dealt: both see the one list, which
\* holds the decks of both less the cards dealt.
C17_Witness ==
    /\ pc = "shoes"
    /\ Len(instances) = 2
    /\ deals = 2
    /\ Len(SeenBy(1)) = 52 * (instances[1].deck_count + instances[2].deck_count) - 2
    /\ SeenBy(2) = SeenBy(1)

====
